---- MODULE Spec2Model ----
(***************************************************************************)
(* A model of odoobench's execution abstraction (core/executor.py) and of  *)
(* the backup / restore / copy handlers of the instance window             *)
(* (gui/instance_window.py) with the operation-log store                   *)
(* (db/odoo_connection_manager.py).                                        *)
(*                                                                         *)
(* SpecRun    : one executor (Local or SSH) and its caller: commands, file *)
(*              reads, stop_tail, disconnect, connections going stale.     *)
(* SpecFollow : one executor, its follow threads, the tail readers, the    *)
(*              SSH connections and the followed file.                     *)
(* SpecStop   : SpecFollow on a file that stays empty.                     *)
(* SpecGui    : the connection store, the open tabs (sessions), the        *)
(*              operation workers and the persisted operation logs.        *)
(***************************************************************************)
EXTENDS Integers, Sequences, FiniteSets, TLC

\* ---------------------------------------------------------------- bounds
MaxFollows == 2      \* tail_file_follow calls per executor
MaxLines == 2        \* lines the followed file ever holds
MaxConns == 2        \* SSH connections an executor ever opens
MaxOps == 2          \* Backup/Restore/Copy workers ever started
MaxSessions == 2     \* connection tabs ever opened
MaxEdits == 1        \* instance edits saved from the dialog
MaxRuns == 1         \* workers started where one run is followed to its end
MaxReqs == 2         \* clicks on a Start button that are followed
MaxDialogs == 2      \* executors created by the connection dialog
MaxLogs == 2         \* save_operation_log calls made on the store alone

\* ------------------------------------------------------- program constants
TailInitialLines == 10   \* `tail -f` first prints the last 10 lines of the file
InfraExit == -1          \* the exit code run_command reports for "could not run"

VARIABLES
    \* --- executor (LocalExecutor / SSHExecutor) ---
    variant,        \* "local" | "ssh": which ConnectionExecutor create_executor built
    ex,             \* the executor object and the OS / network resources it owns
    thr,            \* the follow threads started by tail_file_follow
    nFollows,       \* tail_file_follow calls so far (thread ids are 1..nFollows)
    subStart,       \* per follow: the file's length when tail_file_follow was called
    fileLen,        \* lines in the followed file
    delivered,      \* callback invocations: [t |-> thread, line |-> line number, -1 for an error text]
    last,           \* the outcome of the caller's last call on the executor
    \* --- instance window ---
    store,          \* odoo_instances table: per instance id, the stored flags
    open_connections, \* InstanceWindow.open_connections: per instance id, the open tab
    ops,            \* the worker threads started by _run_backup/_run_restore/_run_backup_restore
    logs,           \* operation_logs table
    afterQueue,     \* root.after(0, ...) callbacks not yet run, per instance id
    nSessions,      \* tabs opened so far
    nEdits,         \* edits saved so far
    lastReq,        \* the last click on a Start button that was followed: inputs, prompts, verdict
    nReqs,          \* clicks followed so far
    executors,      \* every executor create_executor returned, in order of creation
    alive,          \* the main window exists (root.destroy() was not called)
    db,             \* the rest of the SQLite file: which odoo_instances rows exist, the
                    \* AUTOINCREMENT sequence, the settings table, the manager's last call
    instances,      \* the columns of the odoo_instances rows that an export reads, by name
    document,       \* the file Export Connections wrote last
    target          \* the store of the window that imports the file, and what its import returned

execVars == <<variant, ex, thr, nFollows, subStart, fileLen, delivered, last>>
guiVars == <<store, open_connections, ops, logs, afterQueue, nSessions, nEdits>>
xferVars == <<instances, document, target>>
auxVars == <<lastReq, nReqs, executors, alive, db, xferVars>>
vars == <<variant, ex, thr, nFollows, subStart, fileLen, delivered, last,
          store, open_connections, ops, logs, afterQueue, nSessions, nEdits,
          lastReq, nReqs, executors, alive, db, instances, document, target>>

\* =========================================================================
\*                              EXECUTOR
\* =========================================================================
Tids == 1..MaxFollows
ConnIds == 1..MaxConns

Max(a, b) == IF a >= b THEN a ELSE b

\* LocalExecutor.__init__ / SSHExecutor.__init__.
\*   tail_running : self._tail_running
\*   tail_process : self._tail_process (0: the attribute was never set), local only
\*   tail_channel : self._tail_channel (0: None), ssh only
\*   client       : self._client (0: None, -1: an SSHClient that never got a
\*                  transport, k > 0: connection k)
\*   sftp         : self._sftp (0: None, k > 0: an SFTP channel opened on connection k)
\*   procs        : the `tail -f` subprocesses, one per follow thread
\*   chans        : the SSH session channels opened for follows, one per follow thread
\*   chanConn     : the connection each such channel was opened on
\*   conns        : the SSH connections (transports) ever opened
\*   rpos         : per tail reader (process or remote tail), lines it has handed out
\*   rend         : per local tail process, the lines its pipe holds once it was killed
ExecutorInit ==
    [tail_running |-> FALSE,
     tail_process |-> 0,
     tail_channel |-> 0,
     client |-> 0,
     sftp |-> 0,
     procs |-> [t \in Tids |-> "none"],
     chans |-> [t \in Tids |-> "none"],
     chanConn |-> [t \in Tids |-> 0],
     conns |-> [c \in ConnIds |-> "none"],
     rpos |-> [t \in Tids |-> 0],
     rend |-> [t \in Tids |-> 0]]

\* The outcome record of a call made by the caller's thread.
\*   raised : an exception escaped the call
\*   code   : the exit code of a run_command triple
\*   ran    : the command was started (a shell ran it)
\*   ranOn  : the connection the command was executed on (ssh), else 0
\*   live   : that connection was active when the command was executed
\*   hadLive: the executor held an active connection when the call began
\*   trace  : the resources the call released, in order
\*   again  : the caller's previous call was this same operation
\*   wasFollowing : self._tail_running when the call began
\*   cmd, net : what the operating system and the network answered during the call
NoCmd == [kind |-> "none", code |-> 0]

Outcome(op, raised, out, err, code, ran) ==
    [op |-> op, raised |-> raised, out |-> out, err |-> err, code |-> code,
     ran |-> ran, ranOn |-> 0, live |-> FALSE, hadLive |-> FALSE, trace |-> <<>>,
     again |-> FALSE, wasFollowing |-> FALSE, cmd |-> NoCmd, net |-> "none"]

NoCall == Outcome("none", FALSE, "", "", 0, FALSE)

\* What the operating system / the remote host can answer to one command.
\*   exit    : the command ran and exited with status `code`
\*   signal  : the command ran and was killed by signal `code`
\*   timeout : the timeout expired
\*   nospawn : the process (or the remote session channel) could not be started
ExitStatuses == {0, 1, 2}
Signals == {1, 9}
CmdOutcomes ==
    [kind : {"exit"}, code : ExitStatuses] \cup [kind : {"signal"}, code : Signals]
    \cup [kind : {"timeout", "nospawn"}, code : {0}]

\* What a connection attempt can answer.
NetOutcomes == {"ok", "unreachable", "auth_rejected"}

\* What the file system can answer to an open().
FsOutcomes == {"ok", "missing", "denied"}

\* ------------------------------------------------------------ run_command
\* subprocess.run(cmd, shell=True, capture_output=True, text=True, timeout=timeout):
\* the completed process, or the exception it raises. A child killed by signal N
\* has returncode -N.
SubprocessRun(o) ==
    CASE o.kind = "exit" ->
           [exc |-> "none", out |-> "stdout",
            err |-> IF o.code = 0 THEN "" ELSE "stderr", code |-> o.code]
      [] o.kind = "signal" ->
           [exc |-> "none", out |-> "", err |-> "", code |-> 0 - o.code]
      [] o.kind = "timeout" ->
           [exc |-> "TimeoutExpired", out |-> "", err |-> "", code |-> 0]
      [] OTHER ->
           [exc |-> "OSError", out |-> "", err |-> "", code |-> 0]

\* A run_command whose second handler is missing: only the timeout is caught.
LocalRunCommandNoCatchAll(o) ==
    LET r == SubprocessRun(o) IN
    IF r.exc = "none"
    THEN [Outcome("run_command", FALSE, r.out, r.err, r.code, TRUE) EXCEPT !.hadLive = TRUE, !.live = TRUE]
    ELSE IF r.exc = "TimeoutExpired"
    THEN Outcome("run_command", FALSE, "", "Command timed out", InfraExit, FALSE)
    ELSE Outcome("run_command", TRUE, "", r.exc, 0, FALSE)

\* LocalExecutor.run_command
LocalRunCommand(o) ==
    LET r == SubprocessRun(o) IN
    IF r.exc = "none"
    THEN [Outcome("run_command", FALSE, r.out, r.err, r.code, TRUE) EXCEPT !.hadLive = TRUE, !.live = TRUE]
    ELSE IF r.exc = "TimeoutExpired"
    THEN Outcome("run_command", FALSE, "", "Command timed out", InfraExit, FALSE)
    ELSE Outcome("run_command", FALSE, "", r.exc, InfraExit, FALSE)

\* SSHExecutor.is_connected: a client whose transport is active.
IsConnected(s) == s.client > 0 /\ s.conns[s.client] = "active"

\* The first connection id not used yet (0: the model's bound is reached).
FreeConn(s) ==
    IF \E c \in ConnIds : s.conns[c] = "none"
    THEN CHOOSE c \in ConnIds : s.conns[c] = "none" /\ \A d \in ConnIds : d < c => s.conns[d] # "none"
    ELSE 0

\* SSHExecutor._connect: a new SSHClient replaces self._client, then connect()
\* either gives it a transport or raises. The cached self._sftp is left as it is.
Connect(s, net) ==
    IF net = "ok"
    THEN [s |-> [s EXCEPT !.client = FreeConn(s), !.conns[FreeConn(s)] = "active"], exc |-> "none"]
    ELSE [s |-> [s EXCEPT !.client = -1], exc |-> net]

\* An _ensure_connected that only looks at self._client, never at the transport.
EnsureConnectedNoProbe(s, net) ==
    IF s.client = 0 THEN Connect(s, net) ELSE [s |-> s, exc |-> "none"]

\* SSHExecutor._ensure_connected
EnsureConnected(s, net) ==
    IF s.client = 0 \/ s.client = -1 \/ s.conns[s.client] # "active"
    THEN Connect(s, net)
    ELSE [s |-> s, exc |-> "none"]

\* client.exec_command + recv_exit_status + the two reads, on an active connection.
\* recv_exit_status returns -1 when the server sent no exit status (the remote
\* command died on a signal).
ChannelExec(o) ==
    CASE o.kind = "exit" ->
           [exc |-> "none", out |-> "stdout",
            err |-> IF o.code = 0 THEN "" ELSE "stderr", code |-> o.code]
      [] o.kind = "signal" ->
           [exc |-> "none", out |-> "", err |-> "", code |-> -1]
      [] o.kind = "timeout" ->
           [exc |-> "socket.timeout", out |-> "", err |-> "", code |-> 0]
      [] OTHER ->
           [exc |-> "SSHException", out |-> "", err |-> "", code |-> 0]

\* SSHExecutor.run_command
SSHRunCommand(s, net, o) ==
    LET c == EnsureConnected(s, net)
        r == ChannelExec(o)
        base == [Outcome("run_command", FALSE, "", "", 0, FALSE) EXCEPT !.hadLive = IsConnected(s)]
    IN  IF c.exc # "none"
        THEN [s |-> c.s, res |-> [base EXCEPT !.err = c.exc, !.code = InfraExit]]
        ELSE IF ~IsConnected(c.s)
        THEN [s |-> c.s, res |-> [base EXCEPT !.err = "SSHException", !.code = InfraExit]]
        ELSE IF r.exc # "none"
        THEN [s |-> c.s, res |-> [base EXCEPT !.err = r.exc, !.code = InfraExit]]
        ELSE [s |-> c.s,
              res |-> [base EXCEPT !.out = r.out, !.err = r.err, !.code = r.code, !.ran = TRUE,
                                   !.ranOn = c.s.client, !.live = IsConnected(c.s)]]

\* --------------------------------------------------------------- read_file
\* LocalExecutor.read_file: open(path) + read, any failure becomes IOError.
\*   fs : "ok", or what the file system refuses ("missing", "denied")
LocalReadFile(fs) ==
    IF fs = "ok"
    THEN Outcome("read_file", FALSE, "content", "", 0, FALSE)
    ELSE Outcome("read_file", TRUE, "", "IOError", 0, FALSE)

\* SSHExecutor._get_sftp: _ensure_connected(), then open_sftp() on the client
\* only if no SFTP channel is cached.
GetSftp(s, net) ==
    LET c == EnsureConnected(s, net) IN
    IF c.exc # "none" THEN c
    ELSE IF c.s.sftp # 0 THEN c
    ELSE IF IsConnected(c.s)
    THEN [s |-> [c.s EXCEPT !.sftp = c.s.client], exc |-> "none"]
    ELSE [s |-> c.s, exc |-> "SSHException"]

\* SSHExecutor.read_file: sftp.open(path) on the channel _get_sftp returned;
\* a channel whose connection is gone cannot open anything.
SSHReadFile(s, net, fs) ==
    LET g == GetSftp(s, net)
        base == [Outcome("read_file", FALSE, "", "", 0, FALSE) EXCEPT !.hadLive = IsConnected(s)]
    IN  IF g.exc # "none" \/ g.s.conns[g.s.sftp] # "active" \/ fs # "ok"
        THEN [s |-> g.s, res |-> [base EXCEPT !.raised = TRUE, !.err = "IOError"]]
        ELSE [s |-> g.s, res |-> [base EXCEPT !.out = "content", !.ranOn = g.s.sftp, !.live = TRUE]]

\* -------------------------------------------------------------- write_file
\* What open(path, mode) and the read or write after it raise.
FsException(fs) ==
    CASE fs = "ok" -> "none"
      [] fs = "missing" -> "FileNotFoundError"
      [] OTHER -> "PermissionError"

\* LocalExecutor.write_file: open(path, 'w') + write, then True; any
\* exception becomes IOError.
LocalWriteFile(fs) ==
    IF FsException(fs) = "none"
    THEN Outcome("write_file", FALSE, "True", "", 0, FALSE)
    ELSE Outcome("write_file", TRUE, "", "IOError", 0, FALSE)

\* An SSHExecutor.write_file whose _get_sftp() call stands before the `try:`:
\* what the connection attempt raises leaves the call as it is.
SSHWriteFileSftpOutsideTry(s, net, fs) ==
    LET g == GetSftp(s, net)
        base == [Outcome("write_file", FALSE, "", "", 0, FALSE) EXCEPT !.hadLive = IsConnected(s)]
    IN  IF g.exc # "none"
        THEN [s |-> g.s, res |-> [base EXCEPT !.raised = TRUE, !.err = g.exc]]
        ELSE IF g.s.conns[g.s.sftp] # "active" \/ FsException(fs) # "none"
        THEN [s |-> g.s, res |-> [base EXCEPT !.raised = TRUE, !.err = "IOError"]]
        ELSE [s |-> g.s, res |-> [base EXCEPT !.out = "True", !.ranOn = g.s.sftp, !.live = TRUE]]

\* SSHExecutor.write_file: sftp.open(path, 'w') on the channel _get_sftp
\* returned, write, then True; any exception (of _get_sftp too) becomes IOError.
SSHWriteFile(s, net, fs) ==
    LET g == GetSftp(s, net)
        base == [Outcome("write_file", FALSE, "", "", 0, FALSE) EXCEPT !.hadLive = IsConnected(s)]
    IN  IF g.exc # "none" \/ g.s.conns[g.s.sftp] # "active" \/ FsException(fs) # "none"
        THEN [s |-> g.s, res |-> [base EXCEPT !.raised = TRUE, !.err = "IOError"]]
        ELSE [s |-> g.s, res |-> [base EXCEPT !.out = "True", !.ranOn = g.s.sftp, !.live = TRUE]]

\* ------------------------------------------------ file_exists / dir_exists
\* What a probe of a path can meet.
\*   present : the path names an object of the kind asked for
\*   absent  : it does not
\*   denied  : the path cannot be examined (no search permission on the way)
\*   timeout, fault : (remote) the probe command did not come back / the
\*                    session channel could not be opened
ProbeOutcomes == {"present", "absent", "denied", "timeout", "fault"}

\* os.path.isfile / os.path.isdir: os.stat inside `try/except (OSError,
\* ValueError): return False`.
\*   ran : stat answered
LocalExists(op, p) ==
    Outcome(op, FALSE, IF p = "present" THEN "True" ELSE "False", "", 0,
            p \in {"present", "absent"})

\* LocalExecutor.file_exists, LocalExecutor.dir_exists
LocalFileExists(p) == LocalExists("file_exists", p)
LocalDirExists(p) == LocalExists("dir_exists", p)

\* What the remote host answers to "test -f 'path' && echo 1 || echo 0"
\* (test -d likewise): the shell always exits 0 after one of the two echos.
ProbeCommand(p) ==
    CASE p \in {"present", "absent", "denied"} -> [kind |-> "exit", code |-> 0]
      [] p = "timeout" -> [kind |-> "timeout", code |-> 0]
      [] OTHER -> [kind |-> "nospawn", code |-> 0]

\* The stdout of the probe command when it ran.
ProbeStdout(p) == IF p = "present" THEN "1\n" ELSE "0\n"

\* str.strip() on the texts a probe can print.
Strip(x) == IF x = "1\n" THEN "1" ELSE IF x = "0\n" THEN "0" ELSE x

\* An existence probe that takes everything but a printed 0 for a yes.
SSHExistsNotZero(op, s, net, p) ==
    LET r == SSHRunCommand(s, net, ProbeCommand(p))
        stdout == IF r.res.ran THEN ProbeStdout(p) ELSE r.res.out
    IN  [s |-> r.s,
         res |-> [r.res EXCEPT !.op = op, !.code = 0, !.err = "",
                    !.out = IF Strip(stdout) # "0" THEN "True" ELSE "False"]]

\* SSHExecutor.file_exists / dir_exists: run_command(probe), then
\* `stdout.strip() == '1'`; stderr and the exit code are not looked at.
SSHExists(op, s, net, p) ==
    LET r == SSHRunCommand(s, net, ProbeCommand(p))
        stdout == IF r.res.ran THEN ProbeStdout(p) ELSE r.res.out
    IN  [s |-> r.s,
         res |-> [r.res EXCEPT !.op = op, !.code = 0, !.err = "",
                    !.out = IF Strip(stdout) = "1" THEN "True" ELSE "False"]]

\* SSHExecutor.file_exists, SSHExecutor.dir_exists
SSHFileExists(s, net, p) == SSHExists("file_exists", s, net, p)
SSHDirExists(s, net, p) == SSHExists("dir_exists", s, net, p)

\* ------------------------------------------------- stop_tail / disconnect
\* Closing a connection (or losing it) closes every channel opened on it.
ChansAfterConnDown(s, c) ==
    [t \in Tids |-> IF s.chanConn[t] = c /\ s.chans[t] = "open" THEN "closed" ELSE s.chans[t]]

\* process.terminate(): a running `tail -f` dies; what it wrote to the pipe
\* before (every line the file held, `len`) stays readable.
Terminate(s, t, len) ==
    IF s.procs[t] = "running"
    THEN [s EXCEPT !.procs[t] = "terminated", !.rend[t] = len]
    ELSE s

\* A LocalExecutor.stop_tail without the hasattr guard: AttributeError when no
\* follow ever set self._tail_process.
LocalStopTailNoGuard(s, len) ==
    IF s.tail_process = 0
    THEN [s |-> [s EXCEPT !.tail_running = FALSE], raised |-> TRUE, trace |-> <<>>]
    ELSE [s |-> Terminate([s EXCEPT !.tail_running = FALSE], s.tail_process, len),
          raised |-> FALSE, trace |-> <<"stop_tail">>]

\* LocalExecutor.stop_tail
LocalStopTail(s, len) ==
    IF s.tail_process = 0
    THEN [s |-> [s EXCEPT !.tail_running = FALSE], raised |-> FALSE, trace |-> <<"stop_tail">>]
    ELSE [s |-> Terminate([s EXCEPT !.tail_running = FALSE], s.tail_process, len),
          raised |-> FALSE, trace |-> <<"stop_tail">>]

\* SSHExecutor.stop_tail
SSHStopTail(s) ==
    IF s.tail_channel = 0
    THEN [s |-> [s EXCEPT !.tail_running = FALSE], raised |-> FALSE, trace |-> <<"stop_tail">>]
    ELSE [s |-> [s EXCEPT !.tail_running = FALSE, !.chans[s.tail_channel] = "closed",
                          !.tail_channel = 0],
          raised |-> FALSE, trace |-> <<"stop_tail">>]

\* ConnectionExecutor.stop_tail, by variant
StopTailOp(v, s, len) == IF v = "local" THEN LocalStopTail(s, len) ELSE SSHStopTail(s)

\* LocalExecutor.disconnect
LocalDisconnect(s, len) == LocalStopTail(s, len)

\* self._sftp.close(), self._sftp = None (inside `if self._sftp:`)
CloseSftp(r) ==
    IF r.s.sftp = 0 THEN r
    ELSE [r EXCEPT !.s.sftp = 0, !.trace = Append(r.trace, "sftp.close")]

\* self._client.close(), self._client = None (inside `if self._client:`)
CloseClient(r) ==
    IF r.s.client = 0 THEN r
    ELSE IF r.s.client = -1
    THEN [r EXCEPT !.s.client = 0, !.trace = Append(r.trace, "client.close")]
    ELSE [r EXCEPT !.s.client = 0,
                   !.s.conns[r.s.client] = "closed",
                   !.s.chans = ChansAfterConnDown(r.s, r.s.client),
                   !.trace = Append(r.trace, "client.close")]

\* An SSHExecutor.disconnect that forgets to stop the follow.
SSHDisconnectNoStop(s) ==
    CloseClient(CloseSftp([s |-> s, raised |-> FALSE, trace |-> <<>>]))

\* SSHExecutor.disconnect
SSHDisconnect(s) == CloseClient(CloseSftp(SSHStopTail(s)))

\* ConnectionExecutor.disconnect, by variant
DisconnectOp(v, s, len) == IF v = "local" THEN LocalDisconnect(s, len) ELSE SSHDisconnect(s)

\* The executor's own fields (what `self` holds), without the resources behind them.
Fields(s) == <<s.tail_running, s.tail_process, s.tail_channel, s.client, s.sftp>>

\* The position a freshly started `tail -f` reads from: it first prints the
\* last TailInitialLines lines that the file already holds.
TailStart(len) == Max(0, len - TailInitialLines)

\* ------------------------------------------------ the caller's thread
\* ConnectionExecutor.run_command, by variant
RunCommand ==
    /\ \E o \in CmdOutcomes, net \in NetOutcomes :
         IF variant = "local"
         THEN /\ net = "ok"
              /\ last' = [LocalRunCommand(o) EXCEPT !.cmd = o, !.net = net]
              /\ ex' = ex
         ELSE /\ (net = "ok" /\ ~IsConnected(ex)) => FreeConn(ex) # 0
              /\ LET r == SSHRunCommand(ex, net, o) IN
                   /\ ex' = r.s
                   /\ last' = [r.res EXCEPT !.cmd = o, !.net = net]
    /\ UNCHANGED <<variant, thr, nFollows, subStart, fileLen, delivered>>
    /\ UNCHANGED <<guiVars, auxVars>>

\* ConnectionExecutor.read_file, by variant, with the answers of the file
\* system and of the network drawn from the given sets.
ReadFileWith(fss, nets) ==
    /\ \E fs \in fss, net \in nets :
         IF variant = "local"
         THEN /\ net = "ok"
              /\ last' = LocalReadFile(fs)
              /\ ex' = ex
         ELSE /\ (net = "ok" /\ ~IsConnected(ex)) => FreeConn(ex) # 0
              /\ LET r == SSHReadFile(ex, net, fs) IN
                   /\ ex' = r.s
                   /\ last' = r.res
    /\ UNCHANGED <<variant, thr, nFollows, subStart, fileLen, delivered>>
    /\ UNCHANGED <<guiVars, auxVars>>

ReadFile == ReadFileWith(FsOutcomes, NetOutcomes)

\* A read_file that meets a reachable host and a readable file.
ReadFileOk == ReadFileWith({"ok"}, {"ok"})

\* ConnectionExecutor.write_file, by variant
WriteFile ==
    /\ \E fs \in FsOutcomes, net \in NetOutcomes :
         IF variant = "local"
         THEN /\ net = "ok"
              /\ last' = LocalWriteFile(fs)
              /\ ex' = ex
         ELSE /\ (net = "ok" /\ ~IsConnected(ex)) => FreeConn(ex) # 0
              /\ LET r == SSHWriteFile(ex, net, fs) IN
                   /\ ex' = r.s
                   /\ last' = [r.res EXCEPT !.net = net]
    /\ UNCHANGED <<variant, thr, nFollows, subStart, fileLen, delivered>>
    /\ UNCHANGED <<guiVars, auxVars>>

\* ConnectionExecutor.file_exists, by variant
FileExists ==
    /\ \E p \in ProbeOutcomes, net \in NetOutcomes :
         IF variant = "local"
         THEN /\ net = "ok" /\ p \in {"present", "absent", "denied"}
              /\ last' = LocalFileExists(p)
              /\ ex' = ex
         ELSE /\ (net = "ok" /\ ~IsConnected(ex)) => FreeConn(ex) # 0
              /\ LET r == SSHFileExists(ex, net, p) IN
                   /\ ex' = r.s
                   /\ last' = [r.res EXCEPT !.net = net]
    /\ UNCHANGED <<variant, thr, nFollows, subStart, fileLen, delivered>>
    /\ UNCHANGED <<guiVars, auxVars>>

\* ConnectionExecutor.dir_exists, by variant
DirExists ==
    /\ \E p \in ProbeOutcomes, net \in NetOutcomes :
         IF variant = "local"
         THEN /\ net = "ok" /\ p \in {"present", "absent", "denied"}
              /\ last' = LocalDirExists(p)
              /\ ex' = ex
         ELSE /\ (net = "ok" /\ ~IsConnected(ex)) => FreeConn(ex) # 0
              /\ LET r == SSHDirExists(ex, net, p) IN
                   /\ ex' = r.s
                   /\ last' = [r.res EXCEPT !.net = net]
    /\ UNCHANGED <<variant, thr, nFollows, subStart, fileLen, delivered>>
    /\ UNCHANGED <<guiVars, auxVars>>

\* ConnectionExecutor.tail_file_follow: the flag is set and a new daemon thread
\* is started; nothing is done about a follow that is already running.
TailFileFollow ==
    /\ nFollows < MaxFollows
    /\ nFollows' = nFollows + 1
    /\ ex' = [ex EXCEPT !.tail_running = TRUE]
    /\ thr' = [thr EXCEPT ![nFollows + 1] = [pc |-> "start", cl |-> 0]]
    /\ subStart' = [subStart EXCEPT ![nFollows + 1] = fileLen]
    /\ last' = Outcome("tail_file_follow", FALSE, "", "", 0, FALSE)
    /\ UNCHANGED <<variant, fileLen, delivered>>
    /\ UNCHANGED <<guiVars, auxVars>>

\* ConnectionExecutor.stop_tail
StopTail ==
    /\ LET r == StopTailOp(variant, ex, fileLen) IN
         /\ ex' = r.s
         /\ last' = [Outcome("stop_tail", r.raised, "", "", 0, FALSE) EXCEPT
                        !.trace = r.trace, !.again = (last.op = "stop_tail"),
                        !.wasFollowing = ex.tail_running]
    /\ UNCHANGED <<variant, thr, nFollows, subStart, fileLen, delivered>>
    /\ UNCHANGED <<guiVars, auxVars>>

\* ConnectionExecutor.disconnect
Disconnect ==
    /\ LET r == DisconnectOp(variant, ex, fileLen) IN
         /\ ex' = r.s
         /\ last' = [Outcome("disconnect", r.raised, "", "", 0, FALSE) EXCEPT
                        !.trace = r.trace, !.hadLive = IsConnected(ex),
                        !.again = (last.op = "disconnect"),
                        !.wasFollowing = ex.tail_running]
    /\ UNCHANGED <<variant, thr, nFollows, subStart, fileLen, delivered>>
    /\ UNCHANGED <<guiVars, auxVars>>

\* ------------------------------------------------ the environment
\* The followed log file grows by one line.
AppendLine ==
    /\ fileLen < MaxLines
    /\ fileLen' = fileLen + 1
    /\ UNCHANGED <<variant, ex, thr, nFollows, subStart, delivered, last>>
    /\ UNCHANGED <<guiVars, auxVars>>

\* The network drops an active connection: its transport is no longer active.
GoStale ==
    /\ variant = "ssh"
    /\ \E c \in ConnIds :
         /\ ex.conns[c] = "active"
         /\ ex' = [ex EXCEPT !.conns[c] = "stale", !.chans = ChansAfterConnDown(ex, c)]
    /\ UNCHANGED <<variant, thr, nFollows, subStart, fileLen, delivered, last>>
    /\ UNCHANGED <<guiVars, auxVars>>

\* ------------------------------------------------ the follow threads
\* callback(...) as called from a follow thread: a line, or (-1) an error text.
Callback(t, line) == delivered' = delivered \cup {[t |-> t, line |-> line]}

\* The `finally:` of SSHExecutor.tail_file_follow.follow: whatever channel
\* self._tail_channel names now is closed and the attribute reset.
FollowFinally(s) ==
    IF s.tail_channel = 0 THEN s
    ELSE [s EXCEPT !.chans[s.tail_channel] = "closed", !.tail_channel = 0]

\* LocalExecutor.tail_file_follow.follow: Popen(['tail', '-f', path]) and
\* self._tail_process = process.
LocalSpawn(t) ==
    /\ variant = "local"
    /\ thr[t].pc = "start"
    /\ ex' = [ex EXCEPT !.procs[t] = "running", !.rpos[t] = TailStart(fileLen),
                        !.tail_process = t]
    /\ thr' = [thr EXCEPT ![t].pc = "check"]
    /\ UNCHANGED <<variant, nFollows, subStart, fileLen, delivered, last>>
    /\ UNCHANGED <<guiVars, auxVars>>

\* `while self._tail_running:` of the local follow; on exit process.terminate().
LocalCheck(t) ==
    /\ variant = "local"
    /\ thr[t].pc = "check"
    /\ IF ex.tail_running
       THEN /\ thr' = [thr EXCEPT ![t].pc = "read"]
            /\ ex' = ex
       ELSE /\ thr' = [thr EXCEPT ![t].pc = "done"]
            /\ ex' = Terminate(ex, t, fileLen)
    /\ UNCHANGED <<variant, nFollows, subStart, fileLen, delivered, last>>
    /\ UNCHANGED <<guiVars, auxVars>>

\* Lines the pipe of local reader t holds.
PipeLen(s, t, len) == IF s.procs[t] = "running" THEN len ELSE s.rend[t]

\* `line = process.stdout.readline()` of the local follow: it blocks until the
\* reader's own process has a line or has ended.
LocalRead(t) ==
    /\ variant = "local"
    /\ thr[t].pc = "read"
    /\ IF ex.rpos[t] < PipeLen(ex, t, fileLen)
       THEN /\ Callback(t, ex.rpos[t] + 1)
            /\ ex' = [ex EXCEPT !.rpos[t] = @ + 1]
            /\ thr' = [thr EXCEPT ![t].pc = "check"]
       ELSE /\ ex.procs[t] = "terminated"
            /\ thr' = [thr EXCEPT ![t].pc = "done"]
            /\ UNCHANGED <<ex, delivered>>
    /\ UNCHANGED <<variant, nFollows, subStart, fileLen, last>>
    /\ UNCHANGED <<guiVars, auxVars>>

\* The probe of `client = self._ensure_connected()` in the remote follow thread.
SSHProbe(t) ==
    /\ variant = "ssh"
    /\ thr[t].pc = "start"
    /\ IF IsConnected(ex)
       THEN thr' = [thr EXCEPT ![t].pc = "open", ![t].cl = ex.client]
       ELSE thr' = [thr EXCEPT ![t].pc = "connect"]
    /\ UNCHANGED <<variant, ex, nFollows, subStart, fileLen, delivered, last>>
    /\ UNCHANGED <<guiVars, auxVars>>

\* self._connect() in the remote follow thread; a failure goes to the
\* `except` (the callback gets the error text) and the `finally`.
SSHConnectStep(t) ==
    /\ variant = "ssh"
    /\ thr[t].pc = "connect"
    /\ \E net \in NetOutcomes :
         /\ net = "ok" => FreeConn(ex) # 0
         /\ LET r == Connect(ex, net) IN
              IF r.exc = "none"
              THEN /\ ex' = r.s
                   /\ thr' = [thr EXCEPT ![t].pc = "open", ![t].cl = r.s.client]
                   /\ UNCHANGED delivered
              ELSE /\ ex' = FollowFinally(r.s)
                   /\ thr' = [thr EXCEPT ![t].pc = "done"]
                   /\ Callback(t, -1)
    /\ UNCHANGED <<variant, nFollows, subStart, fileLen, last>>
    /\ UNCHANGED <<guiVars, auxVars>>

\* transport.open_session(), self._tail_channel = ..., exec_command("tail -f ...").
SSHOpen(t) ==
    /\ variant = "ssh"
    /\ thr[t].pc = "open"
    /\ IF ex.conns[thr[t].cl] = "active"
       THEN /\ ex' = [ex EXCEPT !.chans[t] = "open", !.chanConn[t] = thr[t].cl,
                               !.tail_channel = t, !.rpos[t] = TailStart(fileLen)]
            /\ thr' = [thr EXCEPT ![t].pc = "check"]
            /\ UNCHANGED delivered
       ELSE /\ ex' = FollowFinally(ex)
            /\ thr' = [thr EXCEPT ![t].pc = "done"]
            /\ Callback(t, -1)
    /\ UNCHANGED <<variant, nFollows, subStart, fileLen, last>>
    /\ UNCHANGED <<guiVars, auxVars>>

\* `while self._tail_running:` of the remote follow; on exit the `finally`.
SSHCheck(t) ==
    /\ variant = "ssh"
    /\ thr[t].pc = "check"
    /\ IF ex.tail_running
       THEN /\ thr' = [thr EXCEPT ![t].pc = "recv"]
            /\ ex' = ex
       ELSE /\ thr' = [thr EXCEPT ![t].pc = "done"]
            /\ ex' = FollowFinally(ex)
    /\ UNCHANGED <<variant, nFollows, subStart, fileLen, delivered, last>>
    /\ UNCHANGED <<guiVars, auxVars>>

\* The loop body of the remote follow. It reads self._tail_channel, the
\* attribute every follow thread and stop_tail share:
\*   None            -> AttributeError -> except (callback with the error) -> finally
\*   open, data      -> recv, callback(line)
\*   open, no data   -> sleep(0.1)
\*   closed          -> exit_status_ready() -> break -> finally
SSHRecv(t) ==
    /\ variant = "ssh"
    /\ thr[t].pc = "recv"
    /\ LET c == ex.tail_channel IN
         IF c = 0
         THEN /\ Callback(t, -1)
              /\ thr' = [thr EXCEPT ![t].pc = "done"]
              /\ ex' = ex
         ELSE IF ex.chans[c] = "open" /\ ex.rpos[c] < fileLen
         THEN /\ Callback(t, ex.rpos[c] + 1)
              /\ ex' = [ex EXCEPT !.rpos[c] = @ + 1]
              /\ thr' = [thr EXCEPT ![t].pc = "check"]
         ELSE IF ex.chans[c] = "open"
         THEN /\ thr' = [thr EXCEPT ![t].pc = "check"]
              /\ UNCHANGED <<ex, delivered>>
         ELSE /\ thr' = [thr EXCEPT ![t].pc = "done"]
              /\ ex' = FollowFinally(ex)
              /\ UNCHANGED delivered
    /\ UNCHANGED <<variant, nFollows, subStart, fileLen, last>>
    /\ UNCHANGED <<guiVars, auxVars>>

\* =========================================================================
\*                           INSTANCE WINDOW
\* =========================================================================
Ids == {1, 2}            \* the stored connections (odoo_instances.id)
OpIds == 1..MaxOps

Other(i) == CHOOSE j \in Ids : j # i

\* A closed tab: instance_id is not a key of self.open_connections.
NoSession ==
    [open |-> FALSE, gen |-> 0, allow_restore |-> FALSE,
     operation_running |-> FALSE, buttons |-> "normal", executor |-> 0]

\* A worker that was never started.
NoOp ==
    [kind |-> "none", inst |-> 0, dst |-> 0, gen |-> 0, pc |-> "idle",
     allowAtStart |-> FALSE, outcome |-> "none", path |-> FALSE,
     artifact |-> FALSE, lines |-> <<>>, trail |-> <<>>]

nOps == Cardinality({o \in OpIds : ops[o].kind # "none"})

\* The workers that have not ended yet.
InFlight == {o \in OpIds : ops[o].pc = "running"}

\* create_executor: a new executor, held by the component that created it.
\*   disconnects : calls of its disconnect() so far
\*   held        : its creator still has a reference to it
NewExecutor(owner) == [owner |-> owner, disconnects |-> 0, held |-> TRUE]

\* executor.disconnect() by the holder of executor e, which then lets go of
\* it (the tab's entry is deleted / the window is destroyed).
ExecutorDisconnect(es, e) ==
    [es EXCEPT ![e].disconnects = @ + 1, ![e].held = FALSE]

\* The handler that created executor e returns: its local `executor` is gone.
Release(es, e) == [es EXCEPT ![e].held = FALSE]

\* InstanceWindow._connect_selected + _open_connection: the instance is read
\* from the store once; the tab keeps that dictionary. The Restore tab is
\* created only if the instance allowed restore when the tab was opened.
OpenConnection(i) ==
    /\ alive
    /\ ~open_connections[i].open
    /\ nSessions < MaxSessions
    /\ nSessions' = nSessions + 1
    /\ executors' = Append(executors, NewExecutor("tab"))
    /\ open_connections' = [open_connections EXCEPT ![i] =
           [open |-> TRUE, gen |-> nSessions + 1,
            allow_restore |-> store[i].allow_restore,
            operation_running |-> FALSE, buttons |-> "normal",
            executor |-> Len(executors) + 1]]
    /\ UNCHANGED <<store, ops, logs, afterQueue, nEdits, lastReq, nReqs, alive, db>>
    /\ UNCHANGED <<execVars, xferVars>>

\* InstanceWindow._close_connection: with an operation running the operator
\* must confirm (a "no" leaves everything as it is); the tab's executor is
\* disconnected and the entry deleted; the worker is not touched.
CloseConnection(i) ==
    /\ alive
    /\ open_connections[i].open
    /\ executors' = ExecutorDisconnect(executors, open_connections[i].executor)
    /\ open_connections' = [open_connections EXCEPT ![i] = NoSession]
    /\ UNCHANGED <<store, ops, logs, afterQueue, nSessions, nEdits, lastReq, nReqs, alive, db>>
    /\ UNCHANGED <<execVars, xferVars>>

\* InstanceWindow._on_close (WM_DELETE_WINDOW): the executor of every tab
\* still open is disconnected, then the window is destroyed; no handler of
\* the window runs after that.
OnClose ==
    /\ alive
    /\ alive' = FALSE
    /\ executors' = [e \in 1..Len(executors) |->
                       IF \E i \in Ids : open_connections[i].open /\ open_connections[i].executor = e
                       THEN ExecutorDisconnect(executors, e)[e]
                       ELSE executors[e]]
    /\ UNCHANGED <<lastReq, nReqs, db>>
    /\ UNCHANGED guiVars
    /\ UNCHANGED <<execVars, xferVars>>

\* The executors the connection dialog created so far.
nDialogs == Cardinality({e \in 1..Len(executors) : executors[e].owner # "tab"})

\* ConnectionDialog._auto_discover: without a conf path, or if the port field
\* is no number, no executor is created; else one is, discover_all runs on it
\* and returns or raises (FileNotFoundError: the conf file is not there or the
\* host cannot be reached; IOError from read_file), and executor.disconnect()
\* is the last statement of the `try:` body before the success box.
\*   made   : create_executor was reached
\*   raises : discover_all raised
AutoDiscover ==
    /\ alive
    /\ nDialogs < MaxDialogs
    /\ \E made \in BOOLEAN :
         IF ~made THEN UNCHANGED executors
         ELSE \E raises \in BOOLEAN :
           LET e == Len(executors) + 1
               created == Append(executors, NewExecutor("discover")) IN
           executors' = IF raises THEN Release(created, e)
                        ELSE Release(ExecutorDisconnect(created, e), e)
    /\ UNCHANGED <<lastReq, nReqs, alive, db>>
    /\ UNCHANGED guiVars
    /\ UNCHANGED <<execVars, xferVars>>

\* ConnectionDialog._test_connection: run_command never raises, so the
\* executor.disconnect() after it always runs.
TestConnection ==
    /\ alive
    /\ nDialogs < MaxDialogs
    /\ \E made \in BOOLEAN :
         IF ~made THEN UNCHANGED executors
         ELSE LET e == Len(executors) + 1
                  created == Append(executors, NewExecutor("test")) IN
              executors' = Release(ExecutorDisconnect(created, e), e)
    /\ UNCHANGED <<lastReq, nReqs, alive, db>>
    /\ UNCHANGED guiVars
    /\ UNCHANGED <<execVars, xferVars>>

\* InstanceWindow._edit_selected + ConnectionDialog._save + update_instance:
\* the stored row changes; an open tab of that instance keeps its own copy
\* (and its Restore tab).
EditInstance(i) ==
    /\ nEdits < MaxEdits
    /\ nEdits' = nEdits + 1
    /\ \E a \in BOOLEAN : store' = [store EXCEPT ![i].allow_restore = a]
    /\ UNCHANGED <<open_connections, ops, logs, afterQueue, nSessions>>
    /\ UNCHANGED <<execVars, auxVars>>

\* InstanceWindow._set_operation_buttons_state
SetOperationButtonsState(oc, i, state) ==
    IF oc[i].open THEN [oc EXCEPT ![i].buttons = state] ELSE oc

\* The tail of _run_backup / _run_restore / _run_backup_restore: the flag is
\* set on the tab the request came from, its three buttons are disabled and
\* the worker thread is started.
StartWorker(i, op) ==
    /\ nOps < MaxOps
    /\ LET o == CHOOSE k \in OpIds : ops[k].kind = "none" /\ \A j \in OpIds : j < k => ops[j].kind # "none" IN
         ops' = [ops EXCEPT ![o] = op]
    /\ open_connections' =
         SetOperationButtonsState([open_connections EXCEPT ![i].operation_running = TRUE], i, "disabled")

\* A request that returns (after a message box) before the worker is started.
Reject == UNCHANGED <<open_connections, ops>>

\* What is kept of a click on a Start button: the handler's inputs (a value
\* the handler did not get to read keeps its default), the answers to the
\* prompts it showed, its verdict and, for a Backup, the scope it handed to
\* the worker.
NoReq ==
    [kind |-> "none", inst |-> 0, scope |-> "none", hasDb |-> TRUE, hasFs |-> TRUE,
     file |-> "exists", sel |-> 0, known |-> TRUE, dstDb |-> TRUE, dstAllowed |-> TRUE,
     dirOk |-> TRUE, prod |-> FALSE, answers |-> <<>>, verdict |-> "none",
     handed |-> "none"]

\* The click is followed (rec) or not.
Journal(rec, r) ==
    IF rec THEN lastReq' = r /\ nReqs' = nReqs + 1
    ELSE UNCHANGED <<lastReq, nReqs>>

Refuse(rec, r) == Reject /\ Journal(rec, [r EXCEPT !.verdict = "refused"])

Start(rec, i, r, op) == StartWorker(i, op) /\ Journal(rec, [r EXCEPT !.verdict = "started"])

Scopes == {"complete", "db_only", "filestore_only"}

\* The destinations the Backup & Restore tab of instance i offers (dest_map):
\* refresh_destinations rebuilds it from the store when the tab is created and
\* after every saved edit.
DestMap(i) == {j \in Ids : j # i /\ store[j].allow_restore}

\* _run_backup: the prompt "No filestore path specified. Continue with
\* database-only backup?" is shown for every scope but db_only.
BackupAsks(backup_type, hasFs) == backup_type # "db_only" /\ ~hasFs

\* _run_backup: the backup_type the worker closure gets; it becomes
\* config['db_only'] / config['filestore_only'] of the engine call.
BackupScope(backup_type, hasFs) ==
    IF BackupAsks(backup_type, hasFs) THEN "db_only" ELSE backup_type

\* InstanceWindow._run_backup, from the click on "Start Backup" (a disabled
\* button does not call it) up to the start of the worker.
\*   hasDb, hasFs : instance.get('db_name'), instance.get('filestore_path')
\*   confirm      : the answer to "Continue with database-only backup?"
\*   dirOk        : the backup directory exists or could be created
RunBackupReq(i, rec) ==
    /\ open_connections[i].open
    /\ open_connections[i].buttons = "normal"
    /\ rec => nReqs < MaxReqs
    /\ \E backup_type \in Scopes, hasDb \in BOOLEAN :
         LET r == [NoReq EXCEPT !.kind = "backup", !.inst = i, !.scope = backup_type,
                                !.hasDb = hasDb] IN
         IF ~hasDb THEN Refuse(rec, r)
         ELSE \E hasFs \in BOOLEAN, confirm \in BOOLEAN :
           LET ask == BackupAsks(backup_type, hasFs)
               r2 == [r EXCEPT !.hasFs = hasFs,
                               !.answers = IF ask THEN <<confirm>> ELSE <<>>] IN
           IF ask /\ ~confirm THEN Refuse(rec, r2)
           ELSE \E dirOk \in BOOLEAN :
             IF ~dirOk THEN Refuse(rec, [r2 EXCEPT !.dirOk = FALSE])
             ELSE Start(rec, i, [r2 EXCEPT !.handed = BackupScope(backup_type, hasFs)],
                    [NoOp EXCEPT !.kind = "backup", !.inst = i, !.gen = open_connections[i].gen,
                                 !.pc = "running"])
    /\ UNCHANGED <<store, logs, afterQueue, nSessions, nEdits, executors, alive, db>>
    /\ UNCHANGED <<execVars, xferVars>>

RunBackup(i) == RunBackupReq(i, FALSE)

\* _run_restore without its check of the backup file.
RestoreInvalidNoFileCheck(file, hasDb, restore_type) ==
    ~hasDb /\ restore_type # "filestore_only"

\* _run_restore, "Validate backup file" and "Validate target database".
RestoreInvalid(file, hasDb, restore_type) ==
    \/ file # "exists"
    \/ ~hasDb /\ restore_type # "filestore_only"

\* _run_restore with the production path stopping at its first prompt.
RestoreConfirmedNoFinal(prod, c1, c2) == c1

\* _run_restore, "Production confirmation" (two prompts) or "Standard
\* confirmation" (one): the answers to the prompts that were shown, and
\* whether the handler goes on.
RestoreAnswers(prod, c1, c2) == IF prod /\ c1 THEN <<c1, c2>> ELSE <<c1>>

RestoreConfirmed(prod, c1, c2) == IF prod THEN c1 /\ c2 ELSE c1

\* InstanceWindow._run_restore, from the click on "Start Restore" of the
\* Restore tab (which exists only if the tab's copy of the instance allowed
\* restore) up to the start of the worker. The stored instance is not read.
\*   file     : the selected backup file
\*   prod     : instance.get('is_production')
\*   c1, c2   : the answers to the confirmation prompts
RunRestoreReq(i, rec) ==
    /\ open_connections[i].open
    /\ open_connections[i].allow_restore
    /\ open_connections[i].buttons = "normal"
    /\ rec => nReqs < MaxReqs
    /\ \E file \in {"none", "missing", "exists"}, hasDb \in BOOLEAN, restore_type \in Scopes :
         LET r == [NoReq EXCEPT !.kind = "restore", !.inst = i, !.scope = restore_type,
                                !.file = file, !.hasDb = hasDb] IN
         IF RestoreInvalid(file, hasDb, restore_type) THEN Refuse(rec, r)
         ELSE \E prod \in BOOLEAN, c1 \in BOOLEAN, c2 \in BOOLEAN :
           LET r2 == [r EXCEPT !.prod = prod, !.answers = RestoreAnswers(prod, c1, c2)] IN
           IF ~RestoreConfirmed(prod, c1, c2) THEN Refuse(rec, r2)
           ELSE Start(rec, i, r2,
                    [NoOp EXCEPT !.kind = "restore", !.inst = i, !.gen = open_connections[i].gen,
                                 !.pc = "running", !.path = TRUE, !.artifact = TRUE,
                                 !.allowAtStart = store[i].allow_restore])
    /\ UNCHANGED <<store, logs, afterQueue, nSessions, nEdits, executors, alive, db>>
    /\ UNCHANGED <<execVars, xferVars>>

RunRestore(i) == RunRestoreReq(i, FALSE)

\* _run_backup_restore, "Production warning" (only for a production
\* destination) and "Standard confirmation" (always).
CopyAnswers(prod, c1, c2) ==
    IF prod THEN (IF c1 THEN <<c1, c2>> ELSE <<c1>>) ELSE <<c2>>

CopyConfirmed(prod, c1, c2) == (prod => c1) /\ c2

\* InstanceWindow._run_backup_restore, from the click on "Start Backup &
\* Restore" up to the start of the worker. The destination is read from the
\* store at this moment.
\*   sel      : the destination chosen in the combobox (0: none); the label
\*              stays selected after a refresh dropped it from dest_map
\*   prod     : dest_instance.get('is_production')
RunBackupRestoreReq(i, rec) ==
    /\ open_connections[i].open
    /\ open_connections[i].buttons = "normal"
    /\ rec => nReqs < MaxReqs
    /\ \E sel \in {0} \cup (Ids \ {i}), br_type \in Scopes :
         LET r == [NoReq EXCEPT !.kind = "copy", !.inst = i, !.scope = br_type, !.sel = sel,
                                !.known = sel \in DestMap(i)] IN
         IF sel = 0 \/ sel \notin DestMap(i) THEN Refuse(rec, r)
         ELSE \E srcDb \in BOOLEAN, dstDb \in BOOLEAN :
           LET r2 == [r EXCEPT !.hasDb = srcDb, !.dstDb = dstDb,
                               !.dstAllowed = store[sel].allow_restore] IN
           IF (~srcDb \/ ~dstDb) /\ br_type # "filestore_only" THEN Refuse(rec, r2)
           ELSE IF ~store[sel].allow_restore THEN Refuse(rec, r2)
           ELSE \E prod \in BOOLEAN, c1 \in BOOLEAN, c2 \in BOOLEAN :
             LET r3 == [r2 EXCEPT !.prod = prod, !.answers = CopyAnswers(prod, c1, c2)] IN
             IF ~CopyConfirmed(prod, c1, c2) THEN Refuse(rec, r3)
             ELSE Start(rec, i, [r3 EXCEPT !.handed = br_type],
                    [NoOp EXCEPT !.kind = "copy", !.inst = i, !.dst = sel,
                                 !.gen = open_connections[i].gen, !.pc = "running",
                                 !.allowAtStart = store[sel].allow_restore])
    /\ UNCHANGED <<store, logs, afterQueue, nSessions, nEdits, executors, alive, db>>
    /\ UNCHANGED <<execVars, xferVars>>

RunBackupRestore(i) == RunBackupRestoreReq(i, FALSE)

\* ------------------------------------------------ the worker threads
\* What the engine call (OdooBench.backup / restore / backup_and_restore) can
\* do: return, or raise. A Copy can fail in its Backup leg (no artifact) or in
\* its Restore leg (the artifact of the Backup leg is on disk).
EngineOutcomes(kind) ==
    IF kind = "copy" THEN {"ok", "backup_failed", "restore_failed"} ELSE {"ok", "failed"}

\* The commands a Backup of the scope handed to the engine invokes: the
\* database dump unless filestore_only, the filestore archive unless db_only.
EngineCommands(scope) ==
    (IF scope \in {"complete", "db_only"} THEN {"db_dump"} ELSE {}) \cup
    (IF scope \in {"complete", "filestore_only"} THEN {"fs_archive"} ELSE {})

\* OdooInstanceManager.save_operation_log: one INSERT into operation_logs.
\* `worker` is not a column: it names the worker thread that made the call.
SaveOperationLog(lg, worker, instance_id, operation_type, status, log_text, backup_file) ==
    lg \cup {[worker |-> worker, instance_id |-> instance_id,
              operation_type |-> operation_type, status |-> status,
              log_text |-> log_text, backup_file |-> backup_file]}

\* The other methods of OdooInstanceManager, called on the store alone.
SettingValues == {"unset", "0", "1"}

NoDbCall == [op |-> "none", id |-> 0, affected |-> FALSE]

\* _init_db on a new file: no rows, the sequence at 0, no setting.
EmptyDb == [rows |-> {}, seq |-> 0, dark_mode |-> "unset", lastCall |-> NoDbCall]

\* The file the window runs on: a row for every instance id.
FullDb == [EmptyDb EXCEPT !.rows = Ids, !.seq = Cardinality(Ids)]

\* A connection on which foreign keys are enforced.
ForeignKeysOn == TRUE

\* Every method opens its own sqlite3.connect(self.db_path) and none issues
\* `PRAGMA foreign_keys = ON`: on such a connection SQLite does not enforce
\* foreign keys, so the `ON DELETE CASCADE` of operation_logs.instance_id is
\* not acted on.
ForeignKeys == FALSE

\* What `DELETE FROM odoo_instances WHERE id = ?` does to operation_logs.
CascadeDelete(lg, instance_id) ==
    IF ForeignKeys THEN {r \in lg : r.instance_id # instance_id} ELSE lg

\* OdooInstanceManager.save_instance: INSERT INTO odoo_instances; the id is
\* the next of the AUTOINCREMENT sequence (never one used before).
\*   unique : no row has this name (else sqlite3.IntegrityError, nothing changes)
SaveInstance ==
    /\ db.seq < Cardinality(Ids)
    /\ \E unique \in BOOLEAN, allow \in BOOLEAN :
         IF ~unique
         THEN /\ db' = [db EXCEPT !.lastCall = [op |-> "save_instance", id |-> 0, affected |-> FALSE]]
              /\ UNCHANGED store
         ELSE /\ db' = [db EXCEPT !.rows = @ \cup {db.seq + 1}, !.seq = @ + 1,
                                  !.lastCall = [op |-> "save_instance", id |-> db.seq + 1,
                                                affected |-> TRUE]]
              /\ store' = [store EXCEPT ![db.seq + 1].allow_restore = allow]
    /\ UNCHANGED <<open_connections, ops, logs, afterQueue, nSessions, nEdits>>
    /\ UNCHANGED <<lastReq, nReqs, executors, alive>>
    /\ UNCHANGED <<execVars, xferVars>>

\* OdooInstanceManager.update_instance: UPDATE odoo_instances ... WHERE id = ?.
UpdateInstance(i) ==
    /\ \E allow \in BOOLEAN :
         store' = IF i \in db.rows THEN [store EXCEPT ![i].allow_restore = allow] ELSE store
    /\ db' = [db EXCEPT !.lastCall = [op |-> "update_instance", id |-> i, affected |-> i \in db.rows]]
    /\ UNCHANGED <<open_connections, ops, logs, afterQueue, nSessions, nEdits>>
    /\ UNCHANGED <<lastReq, nReqs, executors, alive>>
    /\ UNCHANGED <<execVars, xferVars>>

\* OdooInstanceManager.delete_instance: DELETE FROM odoo_instances WHERE id = ?.
DeleteInstance(i) ==
    /\ db' = [db EXCEPT !.rows = @ \ {i},
                        !.lastCall = [op |-> "delete_instance", id |-> i, affected |-> i \in db.rows]]
    /\ logs' = IF i \in db.rows THEN CascadeDelete(logs, i) ELSE logs
    /\ UNCHANGED <<store, open_connections, ops, afterQueue, nSessions, nEdits>>
    /\ UNCHANGED <<lastReq, nReqs, executors, alive>>
    /\ UNCHANGED <<execVars, xferVars>>

\* OdooInstanceManager.import_instances: save_instance for every entry of
\* the file; an entry whose name exists is skipped.
\*   n : the entries that are saved
ImportInstances ==
    /\ \E n \in 0..(Cardinality(Ids) - db.seq) :
         \E allow \in [1..n -> BOOLEAN] :
           /\ db' = [db EXCEPT !.rows = @ \cup {db.seq + k : k \in 1..n}, !.seq = @ + n,
                               !.lastCall = [op |-> "import_instances", id |-> 0,
                                             affected |-> n > 0]]
           /\ store' = [i \in Ids |->
                          IF i \in {db.seq + k : k \in 1..n}
                          THEN [store[i] EXCEPT !.allow_restore = allow[i - db.seq]]
                          ELSE store[i]]
    /\ UNCHANGED <<open_connections, ops, logs, afterQueue, nSessions, nEdits>>
    /\ UNCHANGED <<lastReq, nReqs, executors, alive>>
    /\ UNCHANGED <<execVars, xferVars>>

\* OdooInstanceManager.set_setting: INSERT OR REPLACE INTO settings.
SetSetting ==
    /\ \E v \in {"0", "1"} :
         db' = [db EXCEPT !.dark_mode = v,
                          !.lastCall = [op |-> "set_setting", id |-> 0, affected |-> TRUE]]
    /\ UNCHANGED guiVars
    /\ UNCHANGED <<lastReq, nReqs, executors, alive>>
    /\ UNCHANGED <<execVars, xferVars>>

\* OdooInstanceManager.save_operation_log called on the store alone: every
\* call makes a row of its own (here `worker` is the row's id). The instance
\* need not exist, unless foreign keys are enforced (sqlite3.IntegrityError).
SaveLog ==
    /\ Cardinality(logs) < MaxLogs
    /\ \E i \in Ids, kind \in {"backup", "restore"}, status \in {"success", "failed"} :
         /\ logs' = IF ForeignKeys /\ i \notin db.rows THEN logs
                    ELSE SaveOperationLog(logs, Cardinality(logs) + 1, i, kind, status,
                                          <<"engine">>, TRUE)
         /\ db' = [db EXCEPT !.lastCall = [op |-> "save_operation_log", id |-> i,
                                           affected |-> ~(ForeignKeys /\ i \notin db.rows)]]
    /\ UNCHANGED <<store, open_connections, ops, afterQueue, nSessions, nEdits>>
    /\ UNCHANGED <<lastReq, nReqs, executors, alive>>
    /\ UNCHANGED <<execVars, xferVars>>

\* ------------------------------------------------------ export / import
MaxInstances == 2

\* The names of the stored connections, numbered in alphabetical order.
Names == 1..MaxInstances

None == "None"
Hosts == {"localhost", "remote"}
Passwords == {"secret"}

\* OdooInstanceManager._encrypt: nothing for no value, else the Fernet token.
Encrypt(value) == IF value \in Passwords THEN "token" ELSE None

\* What a password column of odoo_instances can hold.
Stored == {None} \cup {Encrypt(p) : p \in Passwords}

\* The columns of one row: `host` stands for every column that is no password.
RowContent == [host : Hosts, ssh_password : Stored, db_password : Stored]

\* The odoo_instances tables of up to MaxInstances rows; `name` is UNIQUE.
Tables == UNION {[ns -> RowContent] : ns \in SUBSET Names}

\* config.get(key) on a dictionary that need not have the key.
Get(config, key) == IF key \in DOMAIN config THEN config[key] ELSE None

\* list_instances: the rows `ORDER BY group_name, name`.
RECURSIVE ListInstances(_)
ListInstances(ns) ==
    IF ns = {} THEN <<>>
    ELSE LET first == CHOOSE n \in ns : \A m \in ns : n <= m
         IN  <<first>> \o ListInstances(ns \ {first})

\* An export entry that carries the row's SSH password column as well.
ExportEntryWithPassword(name, row) ==
    [name |-> name, host |-> row.host, ssh_password |-> row.ssh_password]

\* The dictionary export_instances builds from one row: the name and the
\* columns that are no password.
ExportEntry(name, row) == [name |-> name, host |-> row.host]

\* OdooInstanceManager.export_instances, before json.dumps
ExportInstances(tbl) ==
    LET order == ListInstances(DOMAIN tbl) IN
    [version |-> "2.0",
     instances |-> [k \in 1..Len(order) |-> ExportEntry(order[k], tbl[order[k]])]]

\* json.dumps / json.loads: the text of a value, and the value of a text.
JsonDumps(value) == [json |-> value]
JsonLoads(text) == text.json

\* No file was written yet.
NoDocument == [json |-> [version |-> "none", instances |-> <<>>]]

\* The config import_instances builds from one entry of the file: the
\* columns that are no password, whatever else the entry holds.
ImportConfig(entry) == [host |-> Get(entry, "host")]

\* save_instance on a table: both passwords go through _encrypt; a name
\* that exists raises sqlite3.IntegrityError and nothing is inserted.
SaveInstanceRow(tbl, name, config) ==
    IF name \in DOMAIN tbl THEN [table |-> tbl, exc |-> "IntegrityError"]
    ELSE [table |-> [n \in DOMAIN tbl \cup {name} |->
                       IF n = name
                       THEN [host |-> Get(config, "host"),
                             ssh_password |-> Encrypt(Get(config, "ssh_password")),
                             db_password |-> Encrypt(Get(config, "db_password"))]
                       ELSE tbl[n]],
          exc |-> "none"]

\* The loop of import_instances from entry k on.
\*   acc : the table, the two counts and the names of the "Imported:" messages
RECURSIVE ImportFrom(_, _, _)
ImportFrom(acc, entries, k) ==
    IF k > Len(entries) THEN acc
    ELSE LET r == SaveInstanceRow(acc.table, entries[k].name, ImportConfig(entries[k]))
         IN  ImportFrom(
               IF r.exc = "none"
               THEN [acc EXCEPT !.table = r.table, !.success = @ + 1,
                                !.imported = @ \cup {entries[k].name}]
               ELSE [acc EXCEPT !.errors = @ + 1],
               entries, k + 1)

\* OdooInstanceManager.import_instances on the store holding tbl.
ImportInstancesInto(tbl, json_data) ==
    ImportFrom([table |-> tbl, success |-> 0, errors |-> 0, imported |-> {}],
               JsonLoads(json_data).instances, 1)

\* A store nothing was imported into.
NoImport(tbl) == [table |-> tbl, success |-> 0, errors |-> 0, imported |-> {}]

\* InstanceWindow._export_connections: export_instances(), then the file
\* dialog; the text is written unless the dialog is cancelled.
ExportConnections ==
    /\ \E chosen \in BOOLEAN :
         document' = IF chosen THEN JsonDumps(ExportInstances(instances)) ELSE document
    /\ UNCHANGED <<instances, target>>
    /\ UNCHANGED <<lastReq, nReqs, executors, alive, db>>
    /\ UNCHANGED <<execVars, guiVars>>

\* InstanceWindow._import_connections of the exported file, in the window
\* that runs on the target store.
ImportConnections ==
    /\ document # NoDocument
    /\ target' = ImportInstancesInto(target.table, document)
    /\ UNCHANGED <<instances, document>>
    /\ UNCHANGED <<lastReq, nReqs, executors, alive, db>>
    /\ UNCHANGED <<execVars, guiVars>>

\* The `try:` of do_backup / do_restore / do_backup_restore up to the return
\* of the engine call. backup_path is assigned only if the call returns (a
\* Restore knows its path from the request). The engine's own log lines are
\* the opaque "engine".
WorkerTry(op, out) ==
    [op EXCEPT
       !.outcome = out,
       !.artifact = \/ op.kind = "restore"
                    \/ (op.kind = "backup" /\ out = "ok")
                    \/ (op.kind = "copy" /\ out \in {"ok", "restore_failed"}),
       !.path = IF out = "ok" THEN TRUE ELSE op.path,
       !.lines = IF out = "ok" THEN <<"engine", "success">> ELSE <<"engine">>]

LogKind(op) == IF op.kind = "copy" THEN "backup_restore" ELSE op.kind

\* The success path after the engine call: save_operation_log(status='success')
\* for the instance (for a Copy: for the source, then for the destination).
\*   saved : how many of these INSERTs succeed before one raises
WorkerSaveOk(lg, o, op, saved) ==
    LET one == SaveOperationLog(lg, o, op.inst, LogKind(op), "success", op.lines, op.path)
        two == SaveOperationLog(one, o, op.dst, LogKind(op), "success", op.lines, op.path)
    IN  IF saved = 0 THEN lg ELSE IF saved = 1 THEN one ELSE two

\* The failure handler with the record persisted before the error line is
\* written (the order the handler must not have).
WorkerExceptSaveFirst(lg, o, op, dbOk) ==
    LET lines == IF op.kind = "copy" /\ op.path
                 THEN op.lines \o <<"failed", "preserved_path">>
                 ELSE Append(op.lines, "failed")
    IN  [op |-> [op EXCEPT !.lines = IF dbOk THEN lines ELSE op.lines,
                           !.trail = IF dbOk THEN <<"save_failed", "error_line", "show_failed">>
                                     ELSE <<>>],
         logs |-> IF dbOk
                  THEN SaveOperationLog(lg, o, op.inst, LogKind(op), "failed", op.lines, op.path)
                  ELSE lg]

\* The `except Exception as e:` of the three workers: the error line, for a
\* Copy the "Backup file preserved at" line if backup_path is set, then
\* save_operation_log(status='failed') for the instance (for a Copy: for the
\* source only), then the queued messagebox.showerror. `trail` is the order
\* of these calls.
\*   dbOk : the INSERT succeeds (if not, the exception leaves the handler)
WorkerExcept(lg, o, op, dbOk) ==
    LET lines == IF op.kind = "copy" /\ op.path
                 THEN op.lines \o <<"failed", "preserved_path">>
                 ELSE Append(op.lines, "failed")
    IN  [op |-> [op EXCEPT !.lines = lines,
                           !.trail = IF dbOk THEN <<"error_line", "save_failed", "show_failed">>
                                     ELSE <<"error_line">>],
         logs |-> IF dbOk
                  THEN SaveOperationLog(lg, o, op.inst, LogKind(op), "failed", lines, op.path)
                  ELSE lg]

\* Workers without the `finally:` clause: nothing clears the flag.
WorkerNoFinally(oc, i) == oc

\* The `finally:` of the three workers: the flag of whatever tab is open for
\* the instance id now is cleared (the re-enabling of its buttons is queued
\* with root.after(0, ...)).
WorkerFinally(oc, i) ==
    IF oc[i].open THEN [oc EXCEPT ![i].operation_running = FALSE] ELSE oc

\* The worker thread do_backup / do_restore / do_backup_restore, from the
\* engine call to the end of its `finally:`.
Worker(o) ==
    /\ ops[o].pc = "running"
    /\ \E out \in EngineOutcomes(ops[o].kind), saved \in 0..2, dbOk \in BOOLEAN :
         LET n == IF ops[o].kind = "copy" THEN 2 ELSE 1
             t == WorkerTry(ops[o], out)
             okLogs == WorkerSaveOk(logs, o, t, saved)
             e == IF out = "ok" THEN WorkerExcept(okLogs, o, t, dbOk)
                  ELSE WorkerExcept(logs, o, t, dbOk)
         IN  /\ saved <= n
             /\ out # "ok" => saved = 0
             /\ (out = "ok" /\ saved = n) => dbOk
             /\ IF out = "ok" /\ saved = n
                THEN /\ ops' = [ops EXCEPT ![o] = [t EXCEPT !.pc = "done"]]
                     /\ logs' = okLogs
                ELSE /\ ops' = [ops EXCEPT ![o] = [e.op EXCEPT !.pc = "done"]]
                     /\ logs' = e.logs
    /\ open_connections' = WorkerFinally(open_connections, ops[o].inst)
    /\ afterQueue' = [afterQueue EXCEPT ![ops[o].inst] = @ + 1]
    /\ UNCHANGED <<store, nSessions, nEdits>>
    /\ UNCHANGED <<execVars, auxVars>>

\* The main loop runs a queued `self._set_operation_buttons_state(id, tk.NORMAL)`.
RunAfter(i) ==
    /\ afterQueue[i] > 0
    /\ afterQueue' = [afterQueue EXCEPT ![i] = @ - 1]
    /\ open_connections' = SetOperationButtonsState(open_connections, i, "normal")
    /\ UNCHANGED <<store, ops, logs, nSessions, nEdits>>
    /\ UNCHANGED <<execVars, auxVars>>

\* =========================================================================
\*                           SPECIFICATIONS
\* =========================================================================
ExecInit ==
    /\ variant \in {"local", "ssh"}
    /\ ex = ExecutorInit
    /\ thr = [t \in Tids |-> [pc |-> "idle", cl |-> 0]]
    /\ nFollows = 0
    /\ subStart = [t \in Tids |-> 0]
    /\ fileLen \in 0..(MaxLines - 1)
    /\ delivered = {}
    /\ last = NoCall

\* The window before any tab is opened, on a store file holding d.
WindowInit(d) ==
    /\ open_connections = [i \in Ids |-> NoSession]
    /\ ops = [o \in OpIds |-> NoOp]
    /\ logs = {}
    /\ afterQueue = [i \in Ids |-> 0]
    /\ nSessions = 0
    /\ nEdits = 0
    /\ lastReq = NoReq
    /\ nReqs = 0
    /\ executors = <<>>
    /\ alive = TRUE
    /\ db = d
    /\ instances = <<>>
    /\ document = NoDocument
    /\ target = NoImport(<<>>)

GuiInit ==
    /\ store \in [Ids -> [allow_restore : BOOLEAN]]
    /\ WindowInit(FullDb)

\* An executor alone; the window is not in use.
InitExec == ExecInit /\ GuiInit /\ store = [i \in Ids |-> [allow_restore |-> FALSE]]

\* An executor alone, the followed file empty.
InitStop == InitExec /\ fileLen = 0

\* The window alone; its executors are not modelled further.
InitGui == GuiInit /\ ExecInit /\ variant = "local" /\ fileLen = 0

\* The window with a tab open for each stored connection, every instance
\* allowing restore (each of the three operations can be started from each
\* tab) and nothing started yet.
InitOpen ==
    /\ ExecInit /\ variant = "local" /\ fileLen = 0
    /\ store = [i \in Ids |-> [allow_restore |-> TRUE]]
    /\ open_connections =
         [i \in Ids |-> [open |-> TRUE, gen |-> i, allow_restore |-> TRUE,
                         operation_running |-> FALSE, buttons |-> "normal",
                         executor |-> i]]
    /\ ops = [o \in OpIds |-> NoOp]
    /\ logs = {}
    /\ afterQueue = [i \in Ids |-> 0]
    /\ nSessions = 2
    /\ nEdits = 0
    /\ lastReq = NoReq
    /\ nReqs = 0
    /\ executors = <<NewExecutor("tab"), NewExecutor("tab")>>
    /\ alive = TRUE
    /\ db = FullDb
    /\ instances = <<>>
    /\ document = NoDocument
    /\ target = NoImport(<<>>)

\* A store holding any table of connections, nothing exported yet, and the
\* store of the importing window: empty, or holding one connection already.
InitExport ==
    /\ ExecInit /\ variant = "local" /\ fileLen = 0
    /\ store = [i \in Ids |-> [allow_restore |-> FALSE]]
    /\ open_connections = [i \in Ids |-> NoSession]
    /\ ops = [o \in OpIds |-> NoOp]
    /\ logs = {}
    /\ afterQueue = [i \in Ids |-> 0]
    /\ nSessions = 0
    /\ nEdits = 0
    /\ lastReq = NoReq
    /\ nReqs = 0
    /\ executors = <<>>
    /\ alive = TRUE
    /\ db = FullDb
    /\ instances \in Tables
    /\ document = NoDocument
    /\ target \in {NoImport(<<>>),
                  NoImport([n \in {1} |-> [host |-> "localhost",
                                           ssh_password |-> Encrypt("secret"),
                                           db_password |-> Encrypt("secret")]])}

\* A new store file (_init_db has created the empty tables).
InitStore ==
    /\ ExecInit /\ variant = "local" /\ fileLen = 0
    /\ store = [i \in Ids |-> [allow_restore |-> FALSE]]
    /\ WindowInit(EmptyDb)

FollowStep(t) ==
    \/ LocalSpawn(t)
    \/ LocalCheck(t)
    \/ LocalRead(t)
    \/ SSHProbe(t)
    \/ SSHConnectStep(t)
    \/ SSHOpen(t)
    \/ SSHCheck(t)
    \/ SSHRecv(t)

\* The caller's calls that start no thread.
NextRun ==
    \/ RunCommand
    \/ ReadFile
    \/ WriteFile
    \/ FileExists
    \/ DirExists
    \/ StopTail
    \/ Disconnect
    \/ GoStale

\* Follows, their threads and what stops them.
NextFollow ==
    \/ TailFileFollow
    \/ ReadFileOk
    \/ StopTail
    \/ Disconnect
    \/ AppendLine
    \/ \E t \in Tids : FollowStep(t)

\* Follows on a file that stays empty: the threads, the readers and what
\* stops them, without any delivery of lines.
NextStop ==
    \/ TailFileFollow
    \/ ReadFileOk
    \/ StopTail
    \/ Disconnect
    \/ \E t \in Tids : FollowStep(t)

NextGui ==
    \/ \E i \in Ids : OpenConnection(i)
    \/ \E i \in Ids : CloseConnection(i)
    \/ \E i \in Ids : EditInstance(i)
    \/ \E i \in Ids : RunBackup(i)
    \/ \E i \in Ids : RunRestore(i)
    \/ \E i \in Ids : RunBackupRestore(i)
    \/ \E o \in OpIds : Worker(o)
    \/ \E i \in Ids : RunAfter(i)

\* The life of a few operations on tabs whose instances are not edited: the
\* requests, the workers, and the closing and reopening of tabs meanwhile.
NextWork ==
    \/ \E i \in Ids : OpenConnection(i)
    \/ \E i \in Ids : CloseConnection(i)
    \/ \E i \in Ids : nOps < MaxRuns /\ RunBackup(i)
    \/ \E i \in Ids : nOps < MaxRuns /\ RunRestore(i)
    \/ \E i \in Ids : nOps < MaxRuns /\ RunBackupRestore(i)
    \/ \E o \in OpIds : Worker(o)
    \/ \E i \in Ids : RunAfter(i)

\* The operations started from the open tabs up to their end; a tab may be
\* closed while its operation runs.
NextEnd ==
    \/ \E i \in Ids : CloseConnection(i)
    \/ \E i \in Ids : nOps < MaxRuns /\ RunBackup(i)
    \/ \E i \in Ids : nOps < MaxRuns /\ RunRestore(i)
    \/ \E i \in Ids : nOps < MaxRuns /\ RunBackupRestore(i)
    \/ \E o \in OpIds : Worker(o)
    \/ \E i \in Ids : RunAfter(i)

\* Clicks on the Start buttons of open tabs, each followed from its inputs
\* to its verdict, up to the start of the workers (which then stay running).
NextReq ==
    \/ \E i \in Ids : OpenConnection(i)
    \/ \E i \in Ids : CloseConnection(i)
    \/ \E i \in Ids : RunBackupReq(i, TRUE)
    \/ \E i \in Ids : RunRestoreReq(i, TRUE)
    \/ \E i \in Ids : RunBackupRestoreReq(i, TRUE)

\* The executors of the window: those of the tabs, opened and closed, those
\* of the dialog's two buttons, and the closing of the window.
NextOwn ==
    \/ \E i \in Ids : OpenConnection(i)
    \/ \E i \in Ids : CloseConnection(i)
    \/ OnClose
    \/ AutoDiscover
    \/ TestConnection

\* Export Connections in one window, Import Connections of the file in another.
NextExport ==
    \/ ExportConnections
    \/ ImportConnections

\* The store alone: every writing method of OdooInstanceManager.
NextStore ==
    \/ SaveInstance
    \/ \E i \in Ids : UpdateInstance(i)
    \/ \E i \in Ids : DeleteInstance(i)
    \/ ImportInstances
    \/ SetSetting
    \/ SaveLog

SpecRun == InitExec /\ [][NextRun]_vars
SpecFollow == InitExec /\ [][NextFollow]_vars
SpecStop == InitStop /\ [][NextStop]_vars
\* SpecStop with every follow thread scheduled: a thread that can take a
\* step eventually takes one. The caller is not obliged to call anything.
SpecStopFair == SpecStop /\ \A t \in Tids : WF_vars(FollowStep(t))
SpecGui == InitGui /\ [][NextGui]_vars
SpecWork == InitGui /\ [][NextWork]_vars
\* The operations started from two open tabs, with the engine call of every
\* worker returning or raising (the worker thread then runs to the end of its
\* `finally:`) and with the Tk main loop running what root.after(0, ...) has
\* queued. The operator is not obliged to click anything.
SpecEnd ==
    /\ InitOpen /\ [][NextEnd]_vars
    /\ \A o \in OpIds : WF_vars(Worker(o))
    /\ \A i \in Ids : WF_vars(RunAfter(i))
SpecReq == InitGui /\ [][NextReq]_vars
SpecOwn == InitGui /\ [][NextOwn]_vars
SpecStore == InitStore /\ [][NextStore]_vars
SpecExport == InitExport /\ [][NextExport]_vars

\* =========================================================================
\*                               CLAIMS
\* =========================================================================
Has(seq, x) == \E k \in DOMAIN seq : seq[k] = x

\* C1: a Restore worker is started only for a target whose stored
\* allow_restore flag is true at the moment of the request; with the flag
\* false no restore worker exists.
C1_RestoreOnlyIfStoredAllow ==
    \A o \in OpIds : ops[o].kind = "restore" => ops[o].allowAtStart

\* C2: per open session at most one Backup/Restore/Copy started from it is in
\* flight, and while one is in flight the session's operation_running flag is
\* set.
C2_OneOperationPerSession ==
    \A i \in Ids :
      open_connections[i].open =>
        LET mine == {o \in InFlight : ops[o].inst = i /\ ops[o].gen = open_connections[i].gen}
        IN  /\ Cardinality(mine) <= 1
            /\ mine # {} => open_connections[i].operation_running

\* C3: run_command never raises, whatever the operating system or the network
\* answers, and a command that ran and exited with a status returns that status.
C3_RunCommandNeverRaises ==
    last.op = "run_command" =>
      /\ ~last.raised
      /\ (last.ran /\ last.cmd.kind = "exit") => last.code = last.cmd.code

\* A run_command whose execution failed inside (the process could not be
\* spawned, the host could not be reached) and still returned a triple.
C3_Witness ==
    /\ last.op = "run_command"
    /\ ~last.ran
    /\ last.cmd.kind = "nospawn" \/ last.net = "unreachable"
    /\ last.code = InfraExit

\* C4: exit code -1 is returned only when the command could not be run, and
\* then with an explanation in stderr; a command that ran never yields -1.
C4_MinusOneOnlyForInfrastructure ==
    (last.op = "run_command" /\ last.code = InfraExit) => (~last.ran /\ last.err # "")

\* C5: the callback of a follow is invoked only for lines appended after the
\* follow was started, never for a line the file already held.
C5_OnlyLinesAfterSubscription ==
    \A d \in delivered : d.line > 0 => d.line > subStart[d.t]

\* The readers (tail subprocesses, remote tail channels) that are alive.
AliveReaders == {t \in Tids : ex.procs[t] = "running" \/ ex.chans[t] = "open"}

\* C6: at most one follow is active per session: at most one reader is alive,
\* and once a second follow was started a line appended after it is
\* delivered by the second subscription only.
C6_SingleActiveFollow ==
    /\ Cardinality(AliveReaders) <= 1
    /\ nFollows >= 2 =>
         \A d \in delivered : d.line > subStart[nFollows] => d.t = nFollows

\* C7: stop_tail does not raise, with or without a follow; a second stop_tail
\* right after it changes nothing; and it leaves the connection, the SFTP
\* channel and the flag in a state later calls can work with.
C7_StopTailIdempotent ==
    LET a == StopTailOp(variant, ex, fileLen)
        b == StopTailOp(variant, a.s, fileLen)
    IN  /\ ~a.raised /\ ~b.raised
        /\ b.s = a.s
        /\ ~a.s.tail_running
        /\ a.s.client = ex.client /\ a.s.sftp = ex.sftp /\ a.s.conns = ex.conns
        /\ last.op = "stop_tail" => ~last.raised

\* stop_tail was called twice in a row on a session that had a follow.
C7_Witness ==
    /\ last.op = "stop_tail"
    /\ last.again
    /\ nFollows > 0
    /\ ~last.raised

C9_LazyConnectAndReconnect ==
    /\ last.op = "none" => \A c \in ConnIds : ex.conns[c] = "none"
    /\ (variant = "ssh" /\ last.op = "run_command" /\ last.net = "ok"
          /\ last.cmd.kind \in {"exit", "signal"}) =>
         (last.ran /\ last.live /\ last.ranOn > 0)

\* A command that ran on a second connection: the first one had gone stale
\* or had been disconnected before the call.
C9_Witness ==
    /\ variant = "ssh"
    /\ last.op = "run_command"
    /\ last.ran
    /\ ~last.hadLive
    /\ last.ranOn = 2
    /\ ex.conns[1] \in {"stale", "closed"}

RecordsOf(o) == {r \in logs : r.worker = o}
RecordsFor(o, i) == {r \in logs : r.worker = o /\ r.instance_id = i}

\* C11: a worker that has ended has persisted at least one record, at most
\* one per target, each with status success if and only if the engine call
\* returned without error; never none, never a success and a failed record
\* for the same run.
C11_FinalizedExactlyOnce ==
    \A o \in OpIds :
      ops[o].pc = "done" =>
        /\ RecordsOf(o) # {}
        /\ \A i \in Ids : Cardinality(RecordsFor(o, i)) <= 1
        /\ \A r \in RecordsOf(o) : (r.status = "success") <=> (ops[o].outcome = "ok")

\* C12: a Copy that has ended, with success or with failure, has exactly one
\* record for its source and exactly one for its destination, and the two
\* carry the same status and the same log text.
C12_CopyRecordedForBothTargets ==
    \A o \in OpIds :
      (ops[o].kind = "copy" /\ ops[o].pc = "done") =>
        /\ Cardinality(RecordsFor(o, ops[o].inst)) = 1
        /\ Cardinality(RecordsFor(o, ops[o].dst)) = 1
        /\ \A r1 \in RecordsOf(o), r2 \in RecordsOf(o) :
              r1.status = r2.status /\ r1.log_text = r2.log_text

\* The position of event x in a handler's trail, 0 if it did not happen.
Pos(seq, x) == IF Has(seq, x) THEN CHOOSE k \in 1..Len(seq) : seq[k] = x ELSE 0

\* The runs whose failure handler ran.
FailedRuns ==
    {o \in OpIds : ops[o].pc = "done" /\
        (ops[o].outcome # "ok" \/ \E r \in RecordsOf(o) : r.status = "failed")}

\* C16: in every failing run the error line is in the log stream, it was
\* written before the failed record was persisted and before the failure was
\* queued for display, and every failed record's log text contains it.
C16_ErrorLineBeforeFailureReported ==
    \A o \in FailedRuns :
      /\ Has(ops[o].lines, "failed")
      /\ Pos(ops[o].trail, "error_line") = 1
      /\ \A ev \in {"save_failed", "show_failed"} :
            Has(ops[o].trail, ev) => Pos(ops[o].trail, "error_line") < Pos(ops[o].trail, ev)
      /\ \A r \in RecordsOf(o) : r.status = "failed" => Has(r.log_text, "failed")

\* A failed run whose failed record is persisted and whose failure is shown.
C16_Witness ==
    \E o \in FailedRuns :
      /\ ops[o].outcome # "ok"
      /\ ops[o].trail = <<"error_line", "save_failed", "show_failed">>
      /\ \E r \in RecordsOf(o) : r.status = "failed"

\* The tab worker o was started from is still open.
TabOpen(o) ==
    /\ open_connections[ops[o].inst].open
    /\ open_connections[ops[o].inst].gen = ops[o].gen

\* C18: a worker whose tab was closed while it runs is not stopped by the
\* closing, and when it ends it has persisted a record of its run.
C18_WorkerOutlivesClosedTab ==
    [][\A o \in OpIds :
         (ops[o].pc = "running" /\ ~TabOpen(o)) =>
           /\ ops'[o].pc \in {"running", "done"}
           /\ ops'[o].pc = "done" => \E r \in logs' : r.worker = o]_vars

\* C13: a Backup the operator requested as filestore-only is handed to the
\* engine as filestore-only and never invokes the database dump; one
\* requested as database-only is handed over as database-only and never
\* invokes the filestore archive; with or without a filestore path.
C13_ScopeHandedIsScopeRequested ==
    (lastReq.kind = "backup" /\ lastReq.verdict = "started") =>
      /\ lastReq.scope = "filestore_only" =>
           lastReq.handed = "filestore_only" /\ "db_dump" \notin EngineCommands(lastReq.handed)
      /\ lastReq.scope = "db_only" =>
           lastReq.handed = "db_only" /\ "fs_archive" \notin EngineCommands(lastReq.handed)

\* C14: a complete Backup requested for a target that has a database name
\* but no filestore path, into a backup directory that exists or can be
\* created, is started, and as a database-only backup; it is never refused.
C14_MissingFilestoreNeverRefuses ==
    (/\ lastReq.kind = "backup" /\ lastReq.scope = "complete"
     /\ lastReq.hasDb /\ ~lastReq.hasFs /\ lastReq.dirOk) =>
      lastReq.verdict = "started" /\ lastReq.handed = "db_only"

\* C15: a Restore or Copy is started only after the operator answered yes to
\* every prompt it showed, of which there is at least one and, for a
\* production target, two; a request with a declined prompt is refused and
\* leaves the workers, the tabs' flags and buttons and the log records as
\* they were.
C15_ProductionNeedsConfirmation ==
    [][(nReqs' # nReqs /\ lastReq'.kind \in {"restore", "copy"}) =>
         /\ lastReq'.verdict = "started" =>
              /\ Len(lastReq'.answers) >= 1
              /\ ~Has(lastReq'.answers, FALSE)
              /\ lastReq'.prod => Len(lastReq'.answers) = 2
         /\ Has(lastReq'.answers, FALSE) =>
              /\ lastReq'.verdict = "refused"
              /\ UNCHANGED <<ops, open_connections, logs>>]_vars

\* A production Restore or Copy declined at its last prompt, and one started
\* after two confirmations.
C15_Witness ==
    /\ lastReq.kind \in {"restore", "copy"}
    /\ lastReq.prod
    /\ \/ lastReq.answers = <<TRUE, FALSE>> /\ lastReq.verdict = "refused"
       \/ lastReq.answers = <<TRUE, TRUE>> /\ lastReq.verdict = "started"

\* The requests that fail validation: no database name where one is required,
\* no or non-existent artifact file, no or unknown destination, destination
\* not restore-allowed.
InvalidReq(r) ==
    \/ r.kind = "backup" /\ ~r.hasDb
    \/ r.kind = "restore" /\ (r.file # "exists" \/ (~r.hasDb /\ r.scope # "filestore_only"))
    \/ r.kind = "copy" /\ \/ r.sel = 0
                          \/ ~r.known
                          \/ (~r.hasDb \/ ~r.dstDb) /\ r.scope # "filestore_only"
                          \/ ~r.dstAllowed

\* C17: a request that fails validation is refused, and the step that
\* refuses it starts no worker, leaves every tab's flag and buttons, the
\* queued callbacks, the log records and the store as they were, and runs
\* nothing on any executor.
C17_ValidationBeforeSideEffects ==
    [][(nReqs' # nReqs /\ InvalidReq(lastReq')) =>
         /\ lastReq'.verdict = "refused"
         /\ UNCHANGED <<ops, open_connections, logs, afterQueue, store>>
         /\ UNCHANGED execVars]_vars

\* A Restore refused for its missing file while a worker of another tab runs.
C17_Witness ==
    /\ lastReq.kind = "restore"
    /\ lastReq.file # "exists"
    /\ lastReq.verdict = "refused"
    /\ InFlight # {}

\* C19: no executor is ever disconnected twice, and an executor its creator
\* has let go of (the tab was closed, the window was closed, the dialog's
\* handler returned) was disconnected once.
C19_DisconnectedExactlyOnce ==
    \A e \in 1..Len(executors) :
      /\ executors[e].disconnects <= 1
      /\ ~executors[e].held => executors[e].disconnects = 1

C21_ExistsNeverRaises ==
    last.op \in {"file_exists", "dir_exists"} =>
      /\ ~last.raised
      /\ last.out \in {"True", "False"}
      /\ ~last.ran => last.out = "False"

\* A remote file_exists whose host could not be reached and that answered.
C21_Witness ==
    /\ variant = "ssh"
    /\ last.op = "file_exists"
    /\ last.net = "unreachable"
    /\ ~last.ran

\* C22: read_file and write_file have one failure channel: they complete
\* normally (write_file returning True) or fail with IOError; a missing path,
\* a refused permission and a transport fault all surface as that one error.
C22_SingleFailureChannel ==
    last.op \in {"read_file", "write_file"} =>
      /\ last.raised => last.err = "IOError"
      /\ ~last.raised =>
           last.out = (IF last.op = "write_file" THEN "True" ELSE "content")

\* A remote write_file that failed because the host could not be reached.
C22_Witness ==
    /\ variant = "ssh"
    /\ last.op = "write_file"
    /\ last.net = "unreachable"
    /\ last.raised

\* C27: a read_file or write_file that found no live connection and
\* re-established one transfers over an SFTP channel opened on that new
\* connection, never over a channel cached from an earlier one.
C27_SftpOnNewConnection ==
    (/\ last.op \in {"read_file", "write_file"}
     /\ ~last.hadLive
     /\ IsConnected(ex))
    => ex.sftp = ex.client

\* The connections of the remote session that are live.
LiveConns == {c \in ConnIds : ex.conns[c] = "active"}

\* C23: a remote session holds at most one live SSH connection, shared by
\* commands, file transfer and the follow, under every interleaving of the
\* caller with the follow threads.
C23_AtMostOneLiveConnection == Cardinality(LiveConns) <= 1

\* C26: once disconnect has returned, the remote session has no SSH connection
\* until the caller makes its next call; no follow thread re-establishes one.
C26_NoConnectionAfterDisconnect ==
    last.op = "disconnect" => LiveConns = {}

\* C25: once stop_tail has returned, the callback of the follow is not invoked
\* again, with a line or with an error text, whatever the follow thread was
\* doing: while stop_tail is the caller's latest call nothing is delivered.
C25_NoCallbackAfterStopTail ==
    [][(last.op = "stop_tail" /\ last'.op = "stop_tail") => delivered' = delivered]_vars

\* C28: on the local variant every tail subprocess a follow has spawned
\* terminates eventually once stop_tail or disconnect was called, also when
\* the followed file never grows: a subprocess that runs while the caller's
\* latest call is stop_tail or disconnect does not run forever.
C28_TailsEventuallyTerminate ==
    \A t \in Tids :
      [](( /\ variant = "local"
           /\ last.op \in {"stop_tail", "disconnect"}
           /\ ex.procs[t] = "running")
         => <>(ex.procs[t] # "running"))

\* C29: while a Copy runs, no other operation is started against the Copy's
\* destination, neither from the destination's own tab nor as the destination
\* of a further Copy (workers take the slots of `ops` in the order they start).
C29_CopyLocksDestination ==
    \A o \in InFlight : \A p \in InFlight :
      (ops[o].kind = "copy" /\ p > o) =>
        /\ ops[p].inst # ops[o].dst
        /\ ops[p].dst # ops[o].dst

\* The tab an operation was started from is still the one open for its instance.
SameSession(o) ==
    /\ open_connections[ops[o].inst].open
    /\ open_connections[ops[o].inst].gen = ops[o].gen

\* The operation has ended and, if its tab is still open, the tab's flag is
\* cleared and its three Start buttons are enabled.
Ended(o) ==
    /\ ops[o].pc = "done"
    /\ SameSession(o) =>
         /\ ~open_connections[ops[o].inst].operation_running
         /\ open_connections[ops[o].inst].buttons = "normal"

\* C30: every started Backup, Restore or Copy eventually ends with the flag of
\* its session cleared and the session's three Start buttons enabled again, on
\* success and on every failure path (a failure while the log record is
\* persisted included), provided the engine call returns or raises and the
\* session is still open.
C30_OperationEventuallyReleasesSession ==
    \A o \in OpIds : (ops[o].pc = "running") ~> Ended(o)

\* An operation whose failure record could not be persisted either, ended on
\* its still open tab with the flag cleared and the buttons enabled.
C30_Witness ==
    \E o \in OpIds :
      /\ ops[o].outcome # "ok"
      /\ ops[o].trail = <<"error_line">>
      /\ SameSession(o)
      /\ Ended(o)

\* The stores that differ from tbl in nothing but the stored passwords.
PasswordVariants(tbl) ==
    {alt \in [DOMAIN tbl -> RowContent] : \A n \in DOMAIN tbl : alt[n].host = tbl[n].host}

\* C24: an exported document reveals no SSH or database password: it has no
\* password field, every store that differs from the exported one only in its
\* stored passwords gives the very same document, and every instance an
\* import of the document creates has no password.
C24_ExportHidesPasswords ==
    /\ document # NoDocument =>
         /\ \A k \in DOMAIN JsonLoads(document).instances :
              DOMAIN JsonLoads(document).instances[k] \cap {"ssh_password", "db_password"} = {}
         /\ \A alt \in PasswordVariants(instances) :
              JsonDumps(ExportInstances(alt)) = document
    /\ \A n \in target.imported :
         /\ target.table[n].ssh_password = None
         /\ target.table[n].db_password = None

\* A connection stored with both passwords was exported and the import of
\* the file created it in the other store.
C24_Witness ==
    /\ document # NoDocument
    /\ \E n \in DOMAIN instances :
         /\ instances[n].ssh_password # None
         /\ instances[n].db_password # None
         /\ n \in target.imported
====
